---- MODULE Spec2Model ----
(***************************************************************************)
(* Reference table replication of the Citus coordinator                    *)
(* (src/backend/distributed/utils/reference_table_utils.c).                *)
(*                                                                         *)
(* The metadata catalogs (pg_dist_partition, pg_dist_shard,                *)
(* pg_dist_shard_placement, pg_dist_colocation) are one bag of rows.  Every *)
(* backend runs one call inside one coordinator transaction: the rows it   *)
(* inserts and deletes are kept in its own ins/del bags, are merged into   *)
(* the committed bag when the call returns, and are dropped when the call  *)
(* ends with ereport(ERROR).  The copies sent to the workers run in        *)
(* transactions of their own and are never undone.                         *)
(***************************************************************************)
EXTENDS Bags, FiniteSets, Integers, Sequences, TLC

\* ---------------------------------------------------------------- bounds
MaxWorkers == 3
MaxTasks == 2
MaxRows == 2

\* The backends, the relations of the database and the nodes that can be
\* registered as workers; the nodes are numbered in the order of
\* CompareWorkerNodes.
Procs == {1, 2}
Tables == {1, 2}
Nodes == 1 .. MaxWorkers

\* The tasks a worker job can be made of (multi_executor.c).
TaskIds == 1 .. MaxTasks

\* ------------------------------------------------------------- constants
INVALID_COLOCATION_ID == 0
DISTRIBUTE_BY_NONE == "n"
DISTRIBUTE_BY_APPEND == "a"
DISTRIBUTE_BY_HASH == "h"
FILE_FINALIZED == "FILE_FINALIZED"
FILE_INACTIVE == "FILE_INACTIVE"
REPLICATION_MODEL_2PC == "t"
REPLICATION_MODEL_COORDINATOR == "c"
InvalidOid == "InvalidOid"
INT4OID == "int4"
SHARD_STORAGE_TABLE == "t"
MULTI_EXECUTOR_REAL_TIME == "MULTI_EXECUTOR_REAL_TIME"
MULTI_EXECUTOR_TASK_TRACKER == "MULTI_EXECUTOR_TASK_TRACKER"
NULL == 0

\* The kinds of relation a database can hold before the first call.
Kinds == {"local", "append", "hash", "multi", "fkfrom", "fkto"}

VARIABLES
    store,       \* committed rows of the four metadata catalogs (a bag)
    workers,     \* pg_dist_node: the registered worker nodes
    workerData,  \* <<shardId, node>>: the shard's copy is committed on node
    locks,       \* <<lock, shardId or 0, backend>> held until transaction end
    kind,        \* per relation: what it was created as (never changes)
    proc,        \* per backend: position, locals and transaction write set
    job,            \* the worker job of the scan's plan and what is asked of it
    scanState,      \* CitusScanState: finishedUnderlyingScan, tuplestorestate
    tuplestores,    \* the tuple stores ever created, by address
    directories,    \* the job directories on the master node and their files
    resourceOwner,  \* the job directories CurrentResourceOwner remembers
    caller          \* the position inside the scan and what the caller got

scanVars == <<job, scanState, tuplestores, directories, resourceOwner, caller>>

replicationVars == <<store, workers, workerData, locks, kind, proc>>

vars == <<store, workers, workerData, locks, kind, proc, scanVars>>

\* ------------------------------------------------------------------ rows
PartitionRow(relationId, method, colocationId, model) ==
    [rel |-> "pg_dist_partition", logicalrelid |-> relationId,
     partmethod |-> method, colocationid |-> colocationId, repmodel |-> model]

ShardRow(relationId, shardId, storageType, minValue, maxValue) ==
    [rel |-> "pg_dist_shard", logicalrelid |-> relationId, shardid |-> shardId,
     shardstorage |-> storageType, shardminvalue |-> minValue,
     shardmaxvalue |-> maxValue]

PlacementRow(shardId, state, node) ==
    [rel |-> "pg_dist_shard_placement", shardid |-> shardId,
     shardstate |-> state, node |-> node]

ColocationRow(colocationId, shardCount, replicationFactor, columnType) ==
    [rel |-> "pg_dist_colocation", colocationid |-> colocationId,
     shardcount |-> shardCount, replicationfactor |-> replicationFactor,
     distributioncolumntype |-> columnType]

One(row) == SetToBag({row})

RowsOf(catalog, relName) == {r \in BagToSet(catalog) : r.rel = relName}

RECURSIVE SumCopies(_, _)
SumCopies(catalog, rows) ==
    IF rows = {} THEN 0
    ELSE LET r == CHOOSE x \in rows : TRUE
         IN  CopiesIn(r, catalog) + SumCopies(catalog, rows \ {r})

SetMin(S) == CHOOSE x \in S : \A y \in S : x <= y
SetMax(S) == CHOOSE x \in S : \A y \in S : y <= x

\* ---------------------------------------------------- catalog read access
PartitionRows(catalog, relationId) ==
    {r \in RowsOf(catalog, "pg_dist_partition") : r.logicalrelid = relationId}

PartitionRowCount(catalog, relationId) ==
    SumCopies(catalog, PartitionRows(catalog, relationId))

IsDistributedTable(catalog, relationId) ==
    PartitionRows(catalog, relationId) # {}

PartitionMethod(catalog, relationId) ==
    (CHOOSE r \in PartitionRows(catalog, relationId) : TRUE).partmethod

TableColocationId(catalog, relationId) ==
    (CHOOSE r \in PartitionRows(catalog, relationId) : TRUE).colocationid

ShardRows(catalog, relationId) ==
    {r \in RowsOf(catalog, "pg_dist_shard") : r.logicalrelid = relationId}

ShardRowsById(catalog, shardId) ==
    {r \in RowsOf(catalog, "pg_dist_shard") : r.shardid = shardId}

\* list_length(LoadShardIntervalList(relationId))
ShardIntervalCount(catalog, relationId) ==
    SumCopies(catalog, ShardRows(catalog, relationId))

\* linitial(LoadShardIntervalList(relationId))->shardId
FirstShardId(catalog, relationId) ==
    SetMin({r.shardid : r \in ShardRows(catalog, relationId)})

ShardStorageType(catalog, relationId) ==
    (CHOOSE r \in ShardRows(catalog, relationId) : TRUE).shardstorage

ShardPlacementList(catalog, shardId) ==
    {r \in RowsOf(catalog, "pg_dist_shard_placement") : r.shardid = shardId}

\* FinalizedShardPlacement(shardId, missingOk = false) raises an error when
\* this set is empty.
FinalizedPlacements(catalog, shardId) ==
    {r \in ShardPlacementList(catalog, shardId) : r.shardstate = FILE_FINALIZED}

\* SearchShardPlacementInList(list, nodeName, nodePort, missingOk = true):
\* the rows of the list on that node ({} stands for NULL).
SearchShardPlacementInList(placementList, node) ==
    {r \in placementList : r.node = node}

ColocationRows(catalog) == RowsOf(catalog, "pg_dist_colocation")

\* ColocationId(shardCount, replicationFactor, distributionColumnType)
ColocationId(catalog, shardCount, replicationFactor, columnType) ==
    LET found == {r \in ColocationRows(catalog) :
                     /\ r.shardcount = shardCount
                     /\ r.replicationfactor = replicationFactor
                     /\ r.distributioncolumntype = columnType}
    IN  IF found = {} THEN INVALID_COLOCATION_ID
        ELSE SetMin({r.colocationid : r \in found})

NextColocationId(catalog) ==
    SetMax({r.colocationid : r \in ColocationRows(catalog)}
           \cup {INVALID_COLOCATION_ID}) + 1

\* ReferenceTableList(): the relations whose partition method is 'n'.
ReferenceTableList(catalog) ==
    {r.logicalrelid : r \in {x \in RowsOf(catalog, "pg_dist_partition") :
                                x.partmethod = DISTRIBUTE_BY_NONE}}

\* CopyShardForeignConstraintCommandList(shardInterval) != NIL
HasForeignConstraint(relationId) == kind[relationId] = "fkfrom"

TableReferenced(relationId) == kind[relationId] = "fkto"

\* ------------------------------------------------------- the first state
FirstShardOf(relationId) == relationId
SecondShardOf(relationId) == relationId + Cardinality(Tables)

\* The colocation group of the hash-distributed relations of the first state.
HASH_COLOCATION_ID == INVALID_COLOCATION_ID + 1

InitialPartition(k, t) ==
    CASE k[t] = "local" -> EmptyBag
      [] k[t] \in {"append", "multi"} ->
            One(PartitionRow(t, DISTRIBUTE_BY_APPEND, INVALID_COLOCATION_ID,
                             REPLICATION_MODEL_COORDINATOR))
      [] OTHER ->
            One(PartitionRow(t, DISTRIBUTE_BY_HASH, HASH_COLOCATION_ID,
                             REPLICATION_MODEL_COORDINATOR))

InitialShards(k, t) ==
    CASE k[t] = "local" -> EmptyBag
      [] k[t] = "multi" ->
            One(ShardRow(t, FirstShardOf(t), SHARD_STORAGE_TABLE, "min", "max"))
            (+) One(ShardRow(t, SecondShardOf(t), SHARD_STORAGE_TABLE,
                             "min", "max"))
      [] OTHER ->
            One(ShardRow(t, FirstShardOf(t), SHARD_STORAGE_TABLE, "min", "max"))

InitialColocation(k) ==
    IF \E t \in Tables : k[t] \in {"hash", "fkfrom", "fkto"}
    THEN One(ColocationRow(HASH_COLOCATION_ID, 1, 1, INT4OID))
    ELSE EmptyBag

\* pl[w] is "none", FILE_FINALIZED or FILE_INACTIVE: what the first shard of
\* a relation has on worker w.  The second shard of a two-shard table is
\* healthy everywhere.
InitialPlacements(k, w, pl, t) ==
    LET first == {PlacementRow(FirstShardOf(t), pl[n], n) :
                     n \in {x \in w : pl[x] # "none"}}
        second == {PlacementRow(SecondShardOf(t), FILE_FINALIZED, n) : n \in w}
    IN  CASE k[t] = "local" -> EmptyBag
          [] k[t] = "multi" -> SetToBag(first \cup second)
          [] OTHER -> SetToBag(first)

RECURSIVE InitialRows(_, _, _, _)
InitialRows(k, w, pl, S) ==
    IF S = {} THEN EmptyBag
    ELSE LET t == CHOOSE x \in S : TRUE
         IN  InitialPartition(k, t) (+) InitialShards(k, t)
             (+) InitialPlacements(k, w, pl, t)
             (+) InitialRows(k, w, pl, S \ {t})

InitialStore(k, w, pl) == InitialRows(k, w, pl, Tables) (+) InitialColocation(k)

\* The first shards of all relations start with one and the same placement
\* pattern, on registered workers only.
PlacementChoices(w) ==
    {pl \in [Nodes -> {"none", FILE_FINALIZED, FILE_INACTIVE}] :
        \A n \in Nodes : n \notin w => pl[n] = "none"}

\* Relations are interchangeable: they are listed in the order of their kind.
KindRank(k) ==
    CASE k = "local" -> 0 [] k = "append" -> 1 [] k = "hash" -> 2
      [] k = "multi" -> 3 [] k = "fkfrom" -> 4 [] OTHER -> 5

KindChoices ==
    {k \in [Tables -> Kinds] :
        \A t, u \in Tables : t < u => KindRank(k[t]) <= KindRank(k[u])}

IdleProc ==
    [pc |-> "idle", op |-> "none", relationId |-> 0, shardId |-> 0,
     result |-> "none", ins |-> EmptyBag, del |-> EmptyBag,
     shardPlacementList |-> {}, workerNodeList |-> {},
     referenceTableList |-> {}, workerCount |-> 0,
     currentColocationId |-> INVALID_COLOCATION_ID,
     newColocationId |-> INVALID_COLOCATION_ID,
     shardStorageType |-> "none", before |-> EmptyBag, allHealthy |-> FALSE,
     at |-> "none", sent |-> {}, replicated |-> {}, writes |-> 0,
     factorUpdates |-> 0]

\* ------------------------------------------------ the scan's first state
\* The task lists: every order of every set of tasks, no task twice.
TaskLists ==
    {q \in UNION {[1 .. n -> TaskIds] : n \in 0 .. MaxTasks} :
        \A i, k \in DOMAIN q : i # k => q[i] # q[k]}

TasksOf(j) == {j.taskList[i] : i \in DOMAIN j.taskList}

\* A worker job as the planner hands it over, with what the scan cannot
\* know in advance: how many rows each task returns (rowCount), the tasks
\* that fail on every candidate placement (failing), and whether the
\* executor was started with EXEC_FLAG_EXPLAIN_ONLY (explainOnly).
Jobs ==
    {j \in [jobId : {1}, taskList : TaskLists,
            executorType : {MULTI_EXECUTOR_REAL_TIME,
                            MULTI_EXECUTOR_TASK_TRACKER},
            explainOnly : BOOLEAN,
            rowCount : [TaskIds -> 0 .. MaxRows],
            failing : SUBSET TaskIds] :
        /\ j.failing \subseteq TasksOf(j)
        /\ \A t \in TaskIds :
              (t \notin TasksOf(j) \/ t \in j.failing) => j.rowCount[t] = 0}

\* The specifications of the reference table calls run no query.
NoJob ==
    [jobId |-> 1, taskList |-> <<>>,
     executorType |-> MULTI_EXECUTOR_REAL_TIME, explainOnly |-> FALSE,
     rowCount |-> [t \in TaskIds |-> 0], failing |-> {}]

\* Lines 80-99: palloc0 leaves finishedUnderlyingScan false and
\* tuplestorestate NULL.  Neither a job directory nor a tuple store exists.
CitusCreateScan(j) ==
    /\ job = j
    /\ scanState = [executorType |-> j.executorType,
                    finishedUnderlyingScan |-> FALSE,
                    tuplestorestate |-> NULL]
    /\ tuplestores = <<>>
    /\ directories = <<>>
    /\ resourceOwner = [jobDirectories |-> {}]
    /\ caller = [pc |-> "created", error |-> "none",
                 slot |-> [returned |-> "nothing", tuple |-> <<>>],
                 taskIndex |-> 0, completed |-> {},
                 dispatched |-> [t \in TaskIds |-> 0],
                 loaded |-> [t \in TaskIds |-> 0],
                 drained |-> <<>>, atEnd |-> FALSE,
                 rescanned |-> FALSE, previous |-> <<>>,
                 previousComplete |-> FALSE, endScans |-> 0]

Init ==
    /\ kind \in KindChoices
    /\ workers \in SUBSET Nodes
    /\ \E pl \in PlacementChoices(workers) :
          store = InitialStore(kind, workers, pl)
    /\ workerData = {<<r.shardid, r.node>> :
                        r \in {x \in RowsOf(store, "pg_dist_shard_placement") :
                                  x.shardstate = FILE_FINALIZED}}
    /\ locks = {}
    /\ proc = [p \in Procs |-> IdleProc]
    /\ CitusCreateScan(NoJob)

\* ------------------------------------------- the coordinator transaction
\* What backend p reads: the committed rows and its own changes.
View(l) == (store (-) l.del) (+) l.ins

TxInsert(l, row) ==
    [l EXCEPT !.ins = @ (+) One(row), !.writes = @ + 1]

TxDelete(l, row) ==
    IF BagIn(row, l.ins)
    THEN [l EXCEPT !.ins = @ (-) One(row), !.writes = @ + 1]
    ELSE [l EXCEPT !.del = @ (+) One(row), !.writes = @ + 1]

RECURSIVE TxDeleteAll(_, _)
TxDeleteAll(l, rows) ==
    IF rows = {} THEN l
    ELSE LET r == CHOOSE x \in rows : TRUE
         IN  TxDeleteAll(TxDelete(l, r), rows \ {r})

\* The rows of the committed catalogs that describe one relation: its
\* partition rows, its shard rows and the colocation group it belongs to.
TableRows(catalog, relationId) ==
    LET ids == {r.colocationid : r \in PartitionRows(catalog, relationId)}
        rows == PartitionRows(catalog, relationId)
                \cup ShardRows(catalog, relationId)
                \cup {r \in ColocationRows(catalog) : r.colocationid \in ids}
    IN  [r \in rows |-> CopiesIn(r, catalog)]

LocksOf(p) == {k \in locks : k[3] = p}

LockFree(name, id, p) == \A q \in Procs \ {p} : <<name, id, q>> \notin locks

\* The call is over: what the caller and later calls can still see of it.
Ended(l, outcome) ==
    [IdleProc EXCEPT !.pc = "done", !.op = l.op, !.relationId = l.relationId,
                     !.shardId = l.shardId, !.result = outcome, !.at = l.pc,
                     !.before = l.before, !.allHealthy = l.allHealthy,
                     !.workerCount = l.workerCount, !.sent = l.sent,
                     !.currentColocationId = l.currentColocationId,
                     !.replicated = l.replicated, !.writes = l.writes,
                     !.factorUpdates = l.factorUpdates]

\* ereport(ERROR, ...): the call ends, the coordinator transaction is
\* aborted (its row changes are dropped) and its locks are released.
RaiseError(p, l, outcome) ==
    /\ proc' = [proc EXCEPT ![p] = Ended(l, outcome)]
    /\ locks' = locks \ LocksOf(p)
    /\ UNCHANGED <<store, workers, workerData, kind, scanVars>>

Continue(p, l) ==
    /\ proc' = [proc EXCEPT ![p] = l]
    /\ UNCHANGED <<store, workers, workerData, locks, kind, scanVars>>

\* ------------------------------------------- upgrade_to_reference_table
\* Lines 52-90: the checks made before any lock is taken.
upgrade_to_reference_table(p, relationId) ==
    /\ proc[p].pc = "idle"
    /\ LET l == [IdleProc EXCEPT !.pc = "upgrade_to_reference_table",
                                 !.op = "upgrade",
                                 !.relationId = relationId,
                                 !.before = TableRows(store, relationId)]
       IN  IF ~IsDistributedTable(store, relationId)
           THEN RaiseError(p, l, "NotDistributed")
           ELSE IF PartitionMethod(store, relationId) = DISTRIBUTE_BY_NONE
           THEN RaiseError(p, l, "AlreadyReference")
           ELSE IF ShardIntervalCount(store, relationId) # 1
           THEN RaiseError(p, l, "ShardCountNotOne")
           ELSE Continue(p, [l EXCEPT
                    !.pc = "LockShardDistributionMetadata",
                    !.shardId = FirstShardId(store, relationId)])

LockShardDistributionMetadataWithoutWaiting(p) ==
    /\ proc[p].pc = "LockShardDistributionMetadata"
    /\ locks' = locks \cup {<<"metadata", proc[p].shardId, p>>}
    /\ proc' = [proc EXCEPT ![p].pc =
                    IF proc[p].op = "upgrade" THEN "LockShardResource"
                    ELSE "ReplicateShardToAllWorkers"]
    /\ UNCHANGED <<store, workers, workerData, kind, scanVars>>

\* Line 92 and line 129: blocks until no other backend holds the lock.
LockShardDistributionMetadata(p) ==
    /\ proc[p].pc = "LockShardDistributionMetadata"
    /\ LockFree("metadata", proc[p].shardId, p)
    /\ locks' = locks \cup {<<"metadata", proc[p].shardId, p>>}
    /\ proc' = [proc EXCEPT ![p].pc =
                    IF proc[p].op = "upgrade" THEN "LockShardResource"
                    ELSE "ReplicateShardToAllWorkers"]
    /\ UNCHANGED <<store, workers, workerData, kind, scanVars>>

\* Line 93.
LockShardResource(p) ==
    /\ proc[p].pc = "LockShardResource"
    /\ LockFree("resource", proc[p].shardId, p)
    /\ locks' = locks \cup {<<"resource", proc[p].shardId, p>>}
    /\ proc' = [proc EXCEPT ![p].pc = "ReplicateSingleShardTableToAllWorkers"]
    /\ UNCHANGED <<store, workers, workerData, kind, scanVars>>

\* The shard is replicated without the foreign key check.
ReplicateSingleShardWithoutKeyCheck(p) ==
    /\ proc[p].pc = "ReplicateSingleShardTableToAllWorkers"
    /\ Continue(p, [proc[p] EXCEPT
           !.pc = "ReplicateShardToAllWorkers",
           !.shardId = FirstShardId(View(proc[p]), proc[p].relationId)])

\* Lines 167-182: the foreign key check, made before the shard is copied.
ReplicateSingleShardTableToAllWorkers(p) ==
    /\ proc[p].pc = "ReplicateSingleShardTableToAllWorkers"
    /\ LET l == proc[p]
           relationId == l.relationId
       IN  IF HasForeignConstraint(relationId) \/ TableReferenced(relationId)
           THEN RaiseError(p, l, "ForeignConstraint")
           ELSE Continue(p, [l EXCEPT
                    !.pc = "ReplicateShardToAllWorkers",
                    !.shardId = FirstShardId(View(l), relationId)])

\* ------------------------------------------- ReplicateShardToAllWorkers
\* Where the caller goes on when the worker loop is over (line 263).
AfterReplication(l) ==
    [l EXCEPT !.pc = IF l.op = "upgrade"
                     THEN "CreateReferenceTableColocationId"
                     ELSE "RememberColocationId",
              !.replicated = @ \cup {l.shardId}]

\* The worker loop is entered without a finalized source placement.
ReplicateShardToAllWorkersMissingOk(p) ==
    /\ proc[p].pc = "ReplicateShardToAllWorkers"
    /\ LET l == proc[p]
           m == [l EXCEPT
                    !.shardPlacementList = ShardPlacementList(View(l), l.shardId),
                    !.workerNodeList = workers]
       IN  /\ proc' = [proc EXCEPT ![p] =
                  IF workers = {} THEN AfterReplication(m)
                  ELSE [m EXCEPT !.pc = "ReplicateToNextWorker"]]
           /\ locks' = locks \cup {<<"pg_dist_node", 0, p>>}
           /\ UNCHANGED <<store, workers, workerData, kind, scanVars>>

\* Lines 212-231: read the placements, pick the source, lock and read the
\* node list.
ReplicateShardToAllWorkers(p) ==
    /\ proc[p].pc = "ReplicateShardToAllWorkers"
    /\ LET l == proc[p]
           placements == ShardPlacementList(View(l), l.shardId)
       IN  IF FinalizedPlacements(View(l), l.shardId) = {}
           THEN RaiseError(p, l, "NoHealthySource")
           ELSE LET m == [l EXCEPT !.shardPlacementList = placements,
                                   !.workerNodeList = workers]
                IN  /\ proc' = [proc EXCEPT ![p] =
                           IF workers = {} THEN AfterReplication(m)
                           ELSE [m EXCEPT !.pc = "ReplicateToNextWorker"]]
                    /\ locks' = locks \cup {<<"pg_dist_node", 0, p>>}
                    /\ UNCHANGED <<store, workers, workerData, kind, scanVars>>

InsertShardPlacementRow(l, shardId, state, node) ==
    TxInsert(l, PlacementRow(shardId, state, node))

UpdateShardPlacementState(l, placement, state) ==
    TxInsert(TxDelete(l, placement), [placement EXCEPT !.shardstate = state])

\* A row is inserted for every copied worker, whatever row it has.
FinalizePlacementAlwaysInsert(l, target, node) ==
    InsertShardPlacementRow(l, l.shardId, FILE_FINALIZED, node)

\* The placement rows written after a copy has committed (lines 251-259).
FinalizePlacement(l, target, node) ==
    IF target = {}
    THEN InsertShardPlacementRow(l, l.shardId, FILE_FINALIZED, node)
    ELSE UpdateShardPlacementState(l, CHOOSE r \in target : TRUE,
                                   FILE_FINALIZED)

\* Every worker is copied to, whatever placement it has.
NeedsCopyAlways(target) == TRUE

\* A copy only for the workers that have no placement row at all.
NeedsCopyOnlyMissing(target) == target = {}

\* targetPlacement == NULL || targetPlacement->shardState != FILE_FINALIZED
NeedsCopy(target) ==
    \/ target = {}
    \/ (CHOOSE r \in target : TRUE).shardstate # FILE_FINALIZED

\* The placement row is written whether or not the copy has committed.
ReplicateToNextWorkerIgnoringFailure(p) ==
    /\ proc[p].pc = "ReplicateToNextWorker"
    /\ LET l == proc[p]
           node == SetMin(l.workerNodeList)
           rest == l.workerNodeList \ {node}
           target == SearchShardPlacementInList(l.shardPlacementList, node)
           next(m) == IF rest = {}
                      THEN AfterReplication([m EXCEPT !.workerNodeList = rest])
                      ELSE [m EXCEPT !.workerNodeList = rest]
       IN  IF NeedsCopy(target)
           THEN LET m == [l EXCEPT !.sent = @ \cup {<<l.shardId, node>>}]
                IN  \E copied \in BOOLEAN :
                       /\ workerData' = IF copied
                                        THEN workerData \cup {<<l.shardId, node>>}
                                        ELSE workerData
                       /\ proc' = [proc EXCEPT ![p] =
                              next(FinalizePlacement(m, target, node))]
                       /\ UNCHANGED <<store, workers, locks, kind, scanVars>>
           ELSE Continue(p, next(l))

\* The placement row of a copied worker is committed at once, outside the
\* transaction of the call.
ReplicateToNextWorkerAutocommit(p) ==
    /\ proc[p].pc = "ReplicateToNextWorker"
    /\ LET l == proc[p]
           node == SetMin(l.workerNodeList)
           rest == l.workerNodeList \ {node}
           target == SearchShardPlacementInList(l.shardPlacementList, node)
           next(m) == IF rest = {}
                      THEN AfterReplication([m EXCEPT !.workerNodeList = rest])
                      ELSE [m EXCEPT !.workerNodeList = rest]
       IN  IF NeedsCopy(target)
           THEN LET m == [l EXCEPT !.sent = @ \cup {<<l.shardId, node>>},
                                   !.writes = @ + 1]
                IN  \E copied \in BOOLEAN :
                       IF copied
                       THEN /\ workerData' =
                                  workerData \cup {<<l.shardId, node>>}
                            /\ store' = (store (-) SetToBag(target))
                                  (+) One(PlacementRow(l.shardId,
                                                       FILE_FINALIZED, node))
                            /\ proc' = [proc EXCEPT ![p] = next(m)]
                            /\ UNCHANGED <<workers, locks, kind, scanVars>>
                       ELSE RaiseError(p, m, "WorkerCopyFailed")
           ELSE Continue(p, next(l))

\* Lines 232-261: one turn of the loop over the sorted worker list.  The
\* copy runs in a transaction of its own on the worker: it commits there
\* (copied) or raises an error in the coordinator.
ReplicateToNextWorker(p) ==
    /\ proc[p].pc = "ReplicateToNextWorker"
    /\ LET l == proc[p]
           node == SetMin(l.workerNodeList)
           rest == l.workerNodeList \ {node}
           target == SearchShardPlacementInList(l.shardPlacementList, node)
           next(m) == IF rest = {}
                      THEN AfterReplication([m EXCEPT !.workerNodeList = rest])
                      ELSE [m EXCEPT !.workerNodeList = rest]
       IN  IF NeedsCopy(target)
           THEN LET m == [l EXCEPT !.sent = @ \cup {<<l.shardId, node>>}]
                IN  \E copied \in BOOLEAN :
                       IF copied
                       THEN /\ workerData' =
                                  workerData \cup {<<l.shardId, node>>}
                            /\ proc' = [proc EXCEPT ![p] =
                                   next(FinalizePlacement(m, target, node))]
                            /\ UNCHANGED <<store, workers, locks, kind, scanVars>>
                       ELSE RaiseError(p, m, "WorkerCopyFailed")
           ELSE Continue(p, next(l))

\* --------------------------------------- ConvertToReferenceTableMetadata
CreateColocationGroup(l, shardCount, replicationFactor, columnType) ==
    TxInsert(l, ColocationRow(NextColocationId(View(l)), shardCount,
                              replicationFactor, columnType))

\* Lines 276-279 with CreateReferenceTableColocationId (lines 302-320): the
\* group is looked up by the replication factor list_length(WorkerNodeList())
\* and created when no group has it.
CreateReferenceTableColocationId(p) ==
    /\ proc[p].pc = "CreateReferenceTableColocationId"
    /\ LET l == proc[p]
           shardCount == 1
           replicationFactor == Cardinality(workers)
           colocationId == ColocationId(View(l), shardCount, replicationFactor,
                                        InvalidOid)
           m == [l EXCEPT
                    !.currentColocationId =
                        TableColocationId(View(l), l.relationId),
                    !.shardStorageType = ShardStorageType(View(l), l.relationId),
                    !.pc = "DeletePartitionRow"]
       IN  IF colocationId = INVALID_COLOCATION_ID
           THEN Continue(p, [CreateColocationGroup(m, shardCount,
                                 replicationFactor, InvalidOid)
                             EXCEPT !.newColocationId =
                                        NextColocationId(View(l))])
           ELSE Continue(p, [m EXCEPT !.newColocationId = colocationId])

\* The partition row is deleted outside the transaction of the call.
DeletePartitionRowCommitted(p) ==
    /\ proc[p].pc = "DeletePartitionRow"
    /\ LET rows == PartitionRows(store, proc[p].relationId)
       IN  /\ rows # {}
           /\ store' = store (-) One(CHOOSE r \in rows : TRUE)
    /\ proc' = [proc EXCEPT ![p].pc = "DeleteColocationGroupIfNoTablesBelong",
                            ![p].writes = @ + 1]
    /\ UNCHANGED <<workers, workerData, locks, kind, scanVars>>

\* Line 284.
DeletePartitionRow(p) ==
    /\ proc[p].pc = "DeletePartitionRow"
    /\ LET l == proc[p]
           rows == PartitionRows(View(l), l.relationId)
       IN  IF rows = {}
           THEN RaiseError(p, l, "MetadataInconsistent")
           ELSE Continue(p, [TxDelete(l, CHOOSE r \in rows : TRUE) EXCEPT
                                !.pc = "DeleteColocationGroupIfNoTablesBelong"])

\* Line 285.
DeleteColocationGroupIfNoTablesBelong(p) ==
    /\ proc[p].pc = "DeleteColocationGroupIfNoTablesBelong"
    /\ LET l == proc[p]
           colocationId == l.currentColocationId
           members == {r \in RowsOf(View(l), "pg_dist_partition") :
                          r.colocationid = colocationId}
           group == {r \in ColocationRows(View(l)) :
                        r.colocationid = colocationId}
           m == IF colocationId # INVALID_COLOCATION_ID /\ members = {}
                THEN TxDeleteAll(l, group)
                ELSE l
       IN  Continue(p, [m EXCEPT !.pc = "DeleteShardRow"])

\* The shard row is deleted outside the transaction of the call.
DeleteShardRowCommitted(p) ==
    /\ proc[p].pc = "DeleteShardRow"
    /\ LET rows == ShardRowsById(store, proc[p].shardId)
       IN  /\ rows # {}
           /\ store' = store (-) One(CHOOSE r \in rows : TRUE)
    /\ proc' = [proc EXCEPT ![p].pc = "InsertIntoPgDistPartition",
                            ![p].writes = @ + 1]
    /\ UNCHANGED <<workers, workerData, locks, kind, scanVars>>

\* The placement rows of the shard are deleted together with its shard row.
DeleteShardRowWithPlacements(p) ==
    /\ proc[p].pc = "DeleteShardRow"
    /\ LET l == proc[p]
           rows == ShardRowsById(View(l), l.shardId)
           placements == ShardPlacementList(View(l), l.shardId)
       IN  IF rows = {}
           THEN RaiseError(p, l, "MetadataInconsistent")
           ELSE Continue(p, [TxDeleteAll(TxDelete(l, CHOOSE r \in rows : TRUE),
                                         placements)
                             EXCEPT !.pc = "InsertIntoPgDistPartition"])

\* Line 286.
DeleteShardRow(p) ==
    /\ proc[p].pc = "DeleteShardRow"
    /\ LET l == proc[p]
           rows == ShardRowsById(View(l), l.shardId)
       IN  IF rows = {}
           THEN RaiseError(p, l, "MetadataInconsistent")
           ELSE Continue(p, [TxDelete(l, CHOOSE r \in rows : TRUE) EXCEPT
                                !.pc = "InsertIntoPgDistPartition"])

\* Lines 289-290.
InsertIntoPgDistPartition(p) ==
    /\ proc[p].pc = "InsertIntoPgDistPartition"
    /\ LET l == proc[p]
       IN  Continue(p, [TxInsert(l, PartitionRow(l.relationId,
                                       DISTRIBUTE_BY_NONE, l.newColocationId,
                                       REPLICATION_MODEL_2PC))
                        EXCEPT !.pc = "InsertShardRow"])

\* Line 291: the shard row comes back with NULL bounds.
InsertShardRow(p) ==
    /\ proc[p].pc = "InsertShardRow"
    /\ LET l == proc[p]
       IN  Continue(p, [TxInsert(l, ShardRow(l.relationId, l.shardId,
                                       l.shardStorageType, "NULL", "NULL"))
                        EXCEPT !.pc = "CommitTransaction"])

\* ------------------------------- ReplicateAllReferenceTablesToAllNodes
\* Every worker of the node list has a healthy placement of every
\* reference table.
AllPlacementsHealthy(catalog, nodeList) ==
    \A t \in ReferenceTableList(catalog) : \A n \in nodeList :
        \E r \in FinalizedPlacements(catalog, FirstShardId(catalog, t)) :
            r.node = n

ReplicateAllWithoutNodeLock(p) ==
    /\ proc[p].pc = "idle"
    /\ proc' = [proc EXCEPT ![p] =
          [IdleProc EXCEPT !.pc = "ForeachReferenceTable",
                           !.op = "replicateAll",
                           !.referenceTableList = ReferenceTableList(store),
                           !.workerCount = Cardinality(workers),
                           !.allHealthy = AllPlacementsHealthy(store, workers)]]
    /\ UNCHANGED <<store, workers, workerData, locks, kind, scanVars>>

\* Lines 111-120.
ReplicateAllReferenceTablesToAllNodes(p) ==
    /\ proc[p].pc = "idle"
    /\ proc' = [proc EXCEPT ![p] =
          [IdleProc EXCEPT !.pc = "ForeachReferenceTable",
                           !.op = "replicateAll",
                           !.referenceTableList = ReferenceTableList(store),
                           !.workerCount = Cardinality(workers),
                           !.allHealthy = AllPlacementsHealthy(store, workers)]]
    /\ locks' = locks \cup {<<"pg_dist_node", 0, p>>}
    /\ UNCHANGED <<store, workers, workerData, kind, scanVars>>

\* Lines 122-127: the next reference table, in the order of the catalog scan.
ForeachReferenceTable(p) ==
    /\ proc[p].pc = "ForeachReferenceTable"
    /\ LET l == proc[p]
       IN  IF l.referenceTableList = {}
           THEN Continue(p, [l EXCEPT
                    !.pc = "UpdateColocationGroupReplicationFactor"])
           ELSE \E t \in l.referenceTableList :
                   Continue(p, [l EXCEPT
                       !.pc = "LockShardDistributionMetadata",
                       !.relationId = t,
                       !.shardId = FirstShardId(View(l), t),
                       !.referenceTableList = @ \ {t}])

\* The replication factor is updated inside the loop, once per table.
RememberColocationIdAndUpdate(p) ==
    /\ proc[p].pc = "RememberColocationId"
    /\ LET l == proc[p]
           colocationId == TableColocationId(View(l), l.relationId)
           group == {r \in ColocationRows(View(l)) :
                        r.colocationid = colocationId}
           old == CHOOSE r \in group : TRUE
       IN  /\ group # {}
           /\ Continue(p,
                 [TxInsert(TxDelete(l, old),
                           [old EXCEPT !.replicationfactor = l.workerCount])
                  EXCEPT !.pc = "ForeachReferenceTable",
                         !.currentColocationId = colocationId,
                         !.factorUpdates = @ + 1])

\* Lines 133-142: the colocation id of the first table is kept.
RememberColocationId(p) ==
    /\ proc[p].pc = "RememberColocationId"
    /\ LET l == proc[p]
       IN  Continue(p, [l EXCEPT
               !.pc = "ForeachReferenceTable",
               !.currentColocationId =
                   IF @ = INVALID_COLOCATION_ID
                   THEN TableColocationId(View(l), l.relationId)
                   ELSE @])

\* Lines 150-153: one update after the loop, with the worker count read at
\* line 118.
UpdateColocationGroupReplicationFactor(p) ==
    /\ proc[p].pc = "UpdateColocationGroupReplicationFactor"
    /\ LET l == proc[p]
           group == {r \in ColocationRows(View(l)) :
                        r.colocationid = l.currentColocationId}
           old == CHOOSE r \in group : TRUE
       IN  IF l.currentColocationId = INVALID_COLOCATION_ID
           THEN Continue(p, [l EXCEPT !.pc = "CommitTransaction"])
           ELSE IF group = {}
           THEN RaiseError(p, l, "MetadataInconsistent")
           ELSE Continue(p,
                   [TxInsert(TxDelete(l, old),
                             [old EXCEPT !.replicationfactor = l.workerCount])
                    EXCEPT !.pc = "CommitTransaction",
                           !.factorUpdates = @ + 1])

\* --------------------------------------------------- the end of a call
\* The call returns and its transaction commits: its row changes become
\* visible to every backend and its locks are released.
CommitTransaction(p) ==
    /\ proc[p].pc = "CommitTransaction"
    /\ store' = (store (-) proc[p].del) (+) proc[p].ins
    /\ locks' = locks \ LocksOf(p)
    /\ proc' = [proc EXCEPT ![p] = Ended(proc[p], "ok")]
    /\ UNCHANGED <<workers, workerData, kind, scanVars>>

\* The caller has seen the outcome; the backend is free for the next call.
Finish(p) ==
    /\ proc[p].pc = "done"
    /\ proc' = [proc EXCEPT ![p] = IdleProc]
    /\ UNCHANGED <<store, workers, workerData, locks, kind, scanVars>>

\* The call is interrupted (query cancel, error inside a catalog or worker
\* call) at any point before it has committed.
Cancel(p) ==
    /\ proc[p].pc \notin {"idle", "done"}
    /\ RaiseError(p, proc[p], "Cancelled")

\* A worker node is registered; the node table is locked against it while a
\* backend holds its share lock.
AddWorker(node) ==
    /\ node \notin workers
    /\ \A q \in Procs : <<"pg_dist_node", 0, q>> \notin locks
    /\ workers' = workers \cup {node}
    /\ UNCHANGED <<store, workerData, locks, kind, proc, scanVars>>

\* ------------------------------------------------------ specifications
Step(p) ==
    \/ \E t \in Tables : upgrade_to_reference_table(p, t)
    \/ LockShardDistributionMetadata(p)
    \/ LockShardResource(p)
    \/ ReplicateSingleShardTableToAllWorkers(p)
    \/ ReplicateShardToAllWorkers(p)
    \/ ReplicateToNextWorker(p)
    \/ CreateReferenceTableColocationId(p)
    \/ DeletePartitionRow(p)
    \/ DeleteColocationGroupIfNoTablesBelong(p)
    \/ DeleteShardRow(p)
    \/ InsertIntoPgDistPartition(p)
    \/ InsertShardRow(p)
    \/ ReplicateAllReferenceTablesToAllNodes(p)
    \/ ForeachReferenceTable(p)
    \/ RememberColocationId(p)
    \/ UpdateColocationGroupReplicationFactor(p)
    \/ CommitTransaction(p)
    \/ Finish(p)
    \/ Cancel(p)

Next ==
    \/ \E p \in Procs : Step(p)
    \/ \E n \in Nodes : AddWorker(n)

Spec == Init /\ [][Next]_vars

\* One backend making its calls one after the other; a node is added only
\* between two calls.
FirstBackend == SetMin(Procs)

NextSeq ==
    \/ Step(FirstBackend)
    \/ \E n \in Nodes : proc[FirstBackend].pc = "idle" /\ AddWorker(n)

SpecSeq == Init /\ [][NextSeq]_vars

\* Two backends, each making one call, beside node additions and removals.
\* A worker node is removed from the node table; as an addition it waits for
\* the share locks on the table.
RemoveWorker(node) ==
    /\ node \in workers
    /\ \A q \in Procs : <<"pg_dist_node", 0, q>> \notin locks
    /\ workers' = workers \ {node}
    /\ UNCHANGED <<store, workerData, locks, kind, proc, scanVars>>

\* The last relation is a single-shard append table whose one healthy
\* placement is on the first node; the other relations are local tables.
ConcTable == SetMax(Tables)

InitConc ==
    /\ Init
    /\ kind = [t \in Tables |-> IF t = ConcTable THEN "append" ELSE "local"]
    /\ FinalizedPlacements(store, FirstShardOf(ConcTable)) =
          {PlacementRow(FirstShardOf(ConcTable), FILE_FINALIZED,
                        SetMin(Nodes))}

StepOnce(p) ==
    \/ \E t \in Tables : upgrade_to_reference_table(p, t)
    \/ LockShardDistributionMetadata(p)
    \/ LockShardResource(p)
    \/ ReplicateSingleShardTableToAllWorkers(p)
    \/ ReplicateShardToAllWorkers(p)
    \/ ReplicateToNextWorker(p)
    \/ CreateReferenceTableColocationId(p)
    \/ DeletePartitionRow(p)
    \/ DeleteColocationGroupIfNoTablesBelong(p)
    \/ DeleteShardRow(p)
    \/ InsertIntoPgDistPartition(p)
    \/ InsertShardRow(p)
    \/ ReplicateAllReferenceTablesToAllNodes(p)
    \/ ForeachReferenceTable(p)
    \/ RememberColocationId(p)
    \/ UpdateColocationGroupReplicationFactor(p)
    \/ CommitTransaction(p)
    \/ Cancel(p)

NextConc ==
    \/ \E p \in Procs : StepOnce(p)
    \/ \E n \in Nodes : AddWorker(n)
    \/ \E n \in Nodes : RemoveWorker(n)

SpecConc == InitConc /\ [][NextConc]_vars

\* Two backends making call after call on that relation, beside node
\* additions.
SpecCalls == InitConc /\ [][Next]_vars

\* ============================================ the scan (multi_executor.c)
\* The rows task t returns to the master node, in the order the worker
\* produces them.
TaskOutput(t) == [i \in 1 .. job.rowCount[t] |-> <<t, i>>]

\* MasterJobDirectoryName / TaskFilename: the task files of the job.
JobDirectoryExists == job.jobId \in DOMAIN directories

TaskFiles == IF JobDirectoryExists THEN directories[job.jobId] ELSE <<>>

\* ereport(ERROR, ...) inside a scan call: the call does not return.
RaiseScanError(reason) ==
    caller' = [caller EXCEPT !.pc = "error", !.error = reason]

\* Lines 102-119: VerifyMultiPlanValidity raises an error for a plan that
\* cannot be executed.
CitusBeginScan ==
    /\ caller.pc = "created"
    /\ \E valid \in BOOLEAN :
          IF valid
          THEN caller' = [caller EXCEPT !.pc = "idle"]
          ELSE RaiseScanError("PlanInvalid")
    /\ UNCHANGED <<job, scanState, tuplestores, directories, resourceOwner,
                   replicationVars>>

\* tuplestore_gettupleslot(tupleStore, forward = true, copy = false, slot):
\* the next tuple of the store, or an empty slot at its end.
tuplestore_gettupleslot(tupleStore) ==
    LET st == tuplestores[tupleStore]
    IN  IF st.current < Len(st.tuples)
        THEN /\ tuplestores' =
                   [tuplestores EXCEPT ![tupleStore].current = @ + 1]
             /\ caller' = [caller EXCEPT
                              !.pc = "idle",
                              !.slot = [returned |-> "tuple",
                                        tuple |-> st.tuples[st.current + 1]],
                              !.drained = Append(@, st.tuples[st.current + 1])]
        ELSE /\ caller' = [caller EXCEPT
                              !.pc = "idle",
                              !.slot = [returned |-> "empty", tuple |-> <<>>],
                              !.atEnd = TRUE]
             /\ UNCHANGED tuplestores

\* Lines 247-255: the next row out of the tuple store, NULL without store.
ReturnResultSlot(tupleStore) ==
    IF tupleStore # NULL
    THEN tuplestore_gettupleslot(tupleStore)
    ELSE /\ caller' = [caller EXCEPT
                          !.pc = "idle",
                          !.slot = [returned |-> "NULL", tuple |-> <<>>],
                          !.atEnd = TRUE]
         /\ UNCHANGED tuplestores

\* Lines 122-131 and 247-255: a call that finds the underlying scan
\* finished only reads the tuple store; the first call goes on to run the
\* job.
CitusExecScan ==
    /\ caller.pc = "idle"
    /\ IF ~scanState.finishedUnderlyingScan
       THEN /\ caller' = [caller EXCEPT !.pc = "CreateDirectory"]
            /\ UNCHANGED tuplestores
       ELSE ReturnResultSlot(scanState.tuplestorestate)
    /\ UNCHANGED <<job, scanState, directories, resourceOwner,
                   replicationVars>>

\* Lines 150-151: mkdir of the job directory; an existing directory is an
\* error.
CreateDirectory ==
    /\ caller.pc = "CreateDirectory"
    /\ IF JobDirectoryExists
       THEN /\ RaiseScanError("DirectoryExists")
            /\ UNCHANGED directories
       ELSE /\ directories' = (job.jobId :> <<>>) @@ directories
            /\ caller' = [caller EXCEPT
                             !.pc = "ResourceOwnerEnlargeJobDirectories"]
    /\ UNCHANGED <<job, scanState, tuplestores, resourceOwner,
                   replicationVars>>

\* Line 153: makes room for one more entry in the resource owner's array of
\* job directories; the allocation can fail with an out of memory error.
ResourceOwnerEnlargeJobDirectories ==
    /\ caller.pc = "ResourceOwnerEnlargeJobDirectories"
    /\ \E allocated \in BOOLEAN :
          IF allocated
          THEN caller' = [caller EXCEPT
                             !.pc = "ResourceOwnerRememberJobDirectory"]
          ELSE RaiseScanError("OutOfMemory")
    /\ UNCHANGED <<job, scanState, tuplestores, directories, resourceOwner,
                   replicationVars>>

ResourceOwnerForgetsJobDirectory ==
    /\ caller.pc = "ResourceOwnerRememberJobDirectory"
    /\ caller' = [caller EXCEPT !.pc = "PickExecutor"]
    /\ UNCHANGED <<job, scanState, tuplestores, directories, resourceOwner,
                   replicationVars>>

\* Line 154: the directory is removed when the resource owner is released.
ResourceOwnerRememberJobDirectory ==
    /\ caller.pc = "ResourceOwnerRememberJobDirectory"
    /\ resourceOwner' =
          [resourceOwner EXCEPT !.jobDirectories = @ \cup {job.jobId}]
    /\ caller' = [caller EXCEPT !.pc = "PickExecutor"]
    /\ UNCHANGED <<job, scanState, tuplestores, directories, replicationVars>>

\* Lines 156-168: no distributed execution for EXPLAIN, else the executor
\* of the scan's executor type.
PickExecutor ==
    /\ caller.pc = "PickExecutor"
    /\ caller' = [caller EXCEPT !.pc =
          CASE job.explainOnly -> "tuplestore_begin_heap"
            [] scanState.executorType = MULTI_EXECUTOR_REAL_TIME ->
                  "MultiRealTimeExecute"
            [] scanState.executorType = MULTI_EXECUTOR_TASK_TRACKER ->
                  "MultiTaskTrackerExecute"
            [] OTHER -> "tuplestore_begin_heap"]
    /\ UNCHANGED <<job, scanState, tuplestores, directories, resourceOwner,
                   replicationVars>>

\* One step of an executor.  A task that has not completed is dispatched:
\* it fails on every candidate placement (the job fails), or its rows are
\* written to its task file.  Tasks complete in any order.  The executor
\* returns when every task has completed or, if it may return early, as soon
\* as one task has.
ExecuteTasks(returnsEarly) ==
    LET pending == TasksOf(job) \ caller.completed
    IN  \/ \E t \in pending :
              IF t \in job.failing
              THEN /\ caller' = [caller EXCEPT
                                    !.pc = "error",
                                    !.error = "TaskExecutionFailed",
                                    !.dispatched[t] = @ + 1]
                   /\ UNCHANGED directories
              ELSE /\ directories' =
                         [directories EXCEPT
                             ![job.jobId] = (t :> TaskOutput(t)) @@ @]
                   /\ caller' = [caller EXCEPT
                                    !.completed = @ \cup {t},
                                    !.dispatched[t] = @ + 1]
        \/ /\ pending = {} \/ (returnsEarly /\ caller.completed # {})
           /\ caller' = [caller EXCEPT !.pc = "tuplestore_begin_heap"]
           /\ UNCHANGED directories

\* Line 163.  The real-time executor runs the tasks in the calling backend
\* and may return as soon as one task has produced its data.
MultiRealTimeExecute ==
    /\ caller.pc = "MultiRealTimeExecute"
    /\ ExecuteTasks(TRUE)
    /\ UNCHANGED <<job, scanState, tuplestores, resourceOwner,
                   replicationVars>>

\* Line 167.  The task tracker executor returns when the job is done.
MultiTaskTrackerExecute ==
    /\ caller.pc = "MultiTaskTrackerExecute"
    /\ ExecuteTasks(FALSE)
    /\ UNCHANGED <<job, scanState, tuplestores, resourceOwner,
                   replicationVars>>

\* Lines 170-201: a new, empty tuple store.
tuplestore_begin_heap ==
    /\ caller.pc = "tuplestore_begin_heap"
    /\ tuplestores' = Append(tuplestores,
                             [tuples |-> <<>>, current |-> 0, ended |-> 0])
    /\ scanState' = [scanState EXCEPT
                        !.tuplestorestate = Len(tuplestores) + 1]
    /\ caller' = [caller EXCEPT !.pc = "LoadTaskFile", !.taskIndex = 1]
    /\ UNCHANGED <<job, directories, resourceOwner, replicationVars>>

tuplestore_putvalues_first(tupleStore, rows) ==
    [tuplestores EXCEPT ![tupleStore].tuples = rows \o @]

\* Lines 221-241: the rows of one task file are added at the end of the
\* store, in the order of the file.
tuplestore_putvalues(tupleStore, rows) ==
    [tuplestores EXCEPT ![tupleStore].tuples = @ \o rows]

\* Lines 203-242, one round of the foreach loop: BeginCopyFrom opens the
\* task's file (an error if there is no such file) and every row of it goes
\* into the tuple store.
LoadTaskFile ==
    /\ caller.pc = "LoadTaskFile"
    /\ caller.taskIndex <= Len(job.taskList)
    /\ LET workerTask == job.taskList[caller.taskIndex]
       IN  IF workerTask \in DOMAIN TaskFiles
           THEN /\ tuplestores' =
                      tuplestore_putvalues(scanState.tuplestorestate,
                                           TaskFiles[workerTask])
                /\ caller' = [caller EXCEPT !.taskIndex = @ + 1,
                                            !.loaded[workerTask] = @ + 1]
           ELSE /\ RaiseScanError("CouldNotOpenFile")
                /\ UNCHANGED tuplestores
    /\ UNCHANGED <<job, scanState, directories, resourceOwner,
                   replicationVars>>

FinishedUnderlyingScanAfterFirstFile ==
    /\ caller.pc = "LoadTaskFile"
    /\ caller.taskIndex > 1
    /\ scanState' = [scanState EXCEPT !.finishedUnderlyingScan = TRUE]
    /\ ReturnResultSlot(scanState.tuplestorestate)
    /\ UNCHANGED <<job, directories, resourceOwner, replicationVars>>

\* Lines 244-255: after the last task file the underlying scan is finished
\* and the first call returns the first row.
FinishedUnderlyingScan ==
    /\ caller.pc = "LoadTaskFile"
    /\ caller.taskIndex > Len(job.taskList)
    /\ scanState' = [scanState EXCEPT !.finishedUnderlyingScan = TRUE]
    /\ ReturnResultSlot(scanState.tuplestorestate)
    /\ UNCHANGED <<job, directories, resourceOwner, replicationVars>>

CitusEndScanKeepingPointer ==
    /\ caller.pc = "idle"
    /\ scanState.tuplestorestate # NULL
    /\ tuplestores' = [tuplestores EXCEPT
                          ![scanState.tuplestorestate].ended = @ + 1]
    /\ caller' = [caller EXCEPT !.endScans = IF @ < 2 THEN @ + 1 ELSE @]
    /\ UNCHANGED <<job, scanState, directories, resourceOwner,
                   replicationVars>>

\* Lines 259-269.
CitusEndScan ==
    /\ caller.pc = "idle"
    /\ IF scanState.tuplestorestate # NULL
       THEN /\ tuplestores' = [tuplestores EXCEPT
                                  ![scanState.tuplestorestate].ended = @ + 1]
            /\ scanState' = [scanState EXCEPT !.tuplestorestate = NULL]
       ELSE UNCHANGED <<tuplestores, scanState>>
    /\ caller' = [caller EXCEPT !.endScans = IF @ < 2 THEN @ + 1 ELSE @]
    /\ UNCHANGED <<job, directories, resourceOwner, replicationVars>>

\* The caller starts the next pass over the result.
NextPass(c) ==
    [c EXCEPT !.rescanned = TRUE, !.previous = c.drained,
              !.previousComplete = c.atEnd, !.drained = <<>>,
              !.atEnd = FALSE]

\* Lines 272-285: the pointer to the tuple store is dropped (the store is
\* not ended), the underlying scan counts as finished, and a warning is
\* logged.
CitusReScan ==
    /\ caller.pc = "idle"
    /\ scanState' = [scanState EXCEPT !.tuplestorestate = NULL,
                                      !.finishedUnderlyingScan = TRUE]
    /\ caller' = NextPass(caller)
    /\ UNCHANGED <<job, tuplestores, directories, resourceOwner,
                   replicationVars>>

\* The query is cancelled while the executor waits for the workers or the
\* task files are read.
CancelScan ==
    /\ caller.pc \in {"MultiRealTimeExecute", "MultiTaskTrackerExecute",
                      "LoadTaskFile"}
    /\ RaiseScanError("Cancelled")
    /\ UNCHANGED <<job, scanState, tuplestores, directories, resourceOwner,
                   replicationVars>>

\* The owning resource owner is released, at the end of the query or when
\* its transaction aborts after an error: the job directories it remembers
\* are removed with their files.
ResourceOwnerRelease ==
    /\ caller.pc \in {"idle", "error"}
    /\ directories' =
          [d \in DOMAIN directories \ resourceOwner.jobDirectories |->
              directories[d]]
    /\ resourceOwner' = [resourceOwner EXCEPT !.jobDirectories = {}]
    /\ caller' = [caller EXCEPT !.pc = "closed"]
    /\ UNCHANGED <<job, scanState, tuplestores, replicationVars>>

\* No reference table call runs beside the scan.
NoReplication ==
    /\ kind = [t \in Tables |-> "local"]
    /\ workers = {}
    /\ store = EmptyBag
    /\ workerData = {}
    /\ locks = {}
    /\ proc = [p \in Procs |-> IdleProc]

InitScan ==
    /\ NoReplication
    /\ \E j \in Jobs : CitusCreateScan(j)

NextScan ==
    \/ CitusBeginScan
    \/ CitusExecScan
    \/ CreateDirectory
    \/ ResourceOwnerEnlargeJobDirectories
    \/ ResourceOwnerRememberJobDirectory
    \/ PickExecutor
    \/ MultiRealTimeExecute
    \/ MultiTaskTrackerExecute
    \/ tuplestore_begin_heap
    \/ LoadTaskFile
    \/ FinishedUnderlyingScan
    \/ CitusEndScan
    \/ CitusReScan
    \/ CancelScan
    \/ ResourceOwnerRelease

SpecScan == InitScan /\ [][NextScan]_vars

\* =============================================================== claims
Returned(p, op) ==
    /\ proc[p].pc = "done"
    /\ proc[p].op = op

HealthyOn(catalog, shardId, node) ==
    \E r \in FinalizedPlacements(catalog, shardId) : r.node = node

GroupsOf(catalog, relationId) ==
    {g \in ColocationRows(catalog) :
        g.colocationid = TableColocationId(catalog, relationId)}

\* C1: an upgrade_to_reference_table call that returns successfully leaves a
\* FINALIZED placement of the shard on every registered worker, exactly one
\* partition row of the relation, with method DISTRIBUTE_BY_NONE, exactly one
\* shard row, with the shard identifier the relation had before the call,
\* and the partition row points at a colocation group whose replication
\* factor is the number of registered workers.
C1_PromotionResult ==
    \A p \in Procs :
        (Returned(p, "upgrade") /\ proc[p].result = "ok") =>
            LET t == proc[p].relationId
                s == proc[p].shardId
            IN  /\ workers # {}
                /\ \A n \in workers : HealthyOn(store, s, n)
                /\ PartitionRowCount(store, t) = 1
                /\ PartitionMethod(store, t) = DISTRIBUTE_BY_NONE
                /\ ShardIntervalCount(store, t) = 1
                /\ FirstShardId(store, t) = s
                /\ \E b \in BagToSet(proc[p].before) :
                       b.rel = "pg_dist_shard" /\ b.shardid = s
                /\ GroupsOf(store, t) # {}
                /\ \A g \in GroupsOf(store, t) :
                       g.replicationfactor = Cardinality(workers)

\* A promotion has returned after copying the shard to a worker, with two
\* or more workers registered.
C1_Witness ==
    \E p \in Procs :
        /\ Returned(p, "upgrade")
        /\ proc[p].result = "ok"
        /\ proc[p].sent # {}
        /\ Cardinality(workers) >= 2

PreconditionErrors ==
    {"NotDistributed", "AlreadyReference", "ShardCountNotOne",
     "ForeignConstraint"}

\* The relation of the call broke a precondition when the call was made.
ViolatedPrecondition(p) ==
    LET rows == BagToSet(proc[p].before)
        partition == {r \in rows : r.rel = "pg_dist_partition"}
        shards == {r \in rows : r.rel = "pg_dist_shard"}
    IN  \/ partition = {}
        \/ \E r \in partition : r.partmethod = DISTRIBUTE_BY_NONE
        \/ SumCopies(proc[p].before, shards) # 1
        \/ HasForeignConstraint(proc[p].relationId)
        \/ TableReferenced(proc[p].relationId)

\* C2: a call of upgrade_to_reference_table on a relation that breaks a
\* precondition (not distributed, already a reference table, shard count
\* other than one, part of a foreign key) ends with the precondition error
\* (unless it was cancelled first); it has sent no copy command to any worker
\* and has inserted, updated or deleted no metadata row, and the rows of the
\* relation are those of before the call.
C2_PreconditionFailureChangesNothing ==
    \A p \in Procs :
        (Returned(p, "upgrade") /\ ViolatedPrecondition(p)) =>
            /\ proc[p].result \in PreconditionErrors \cup {"Cancelled"}
            /\ proc[p].sent = {}
            /\ proc[p].writes = 0
            /\ TableRows(store, proc[p].relationId) = proc[p].before

\* A call has failed on the foreign key check, the last of the precondition
\* checks, on a relation whose shard some worker lacks.
C2_Witness ==
    \E p \in Procs :
        /\ Returned(p, "upgrade")
        /\ proc[p].result = "ForeignConstraint"
        /\ \E n \in workers : ~HealthyOn(store, proc[p].shardId, n)

ConvertPhases ==
    {"CreateReferenceTableColocationId", "DeletePartitionRow",
     "DeleteColocationGroupIfNoTablesBelong", "DeleteShardRow",
     "InsertIntoPgDistPartition", "InsertShardRow", "CommitTransaction"}

\* C3: a promotion that is interrupted after the shard replication has
\* finished and before the metadata rewrite commits, between any two steps of
\* the rewrite included, leaves the partition row, the shard row and the
\* colocation group of the relation exactly as before the call: the relation
\* is still a plain distributed table.
C3_InterruptedPromotionKeepsMetadata ==
    \A p \in Procs :
        (/\ Returned(p, "upgrade")
         /\ proc[p].result # "ok"
         /\ proc[p].at \in ConvertPhases) =>
            LET t == proc[p].relationId
            IN  /\ TableRows(store, t) = proc[p].before
                /\ PartitionRowCount(store, t) = 1
                /\ PartitionMethod(store, t) # DISTRIBUTE_BY_NONE

\* A promotion was interrupted after it had deleted the old partition and
\* shard rows and before it inserted the new ones.
C3_Witness ==
    \E p \in Procs :
        /\ Returned(p, "upgrade")
        /\ proc[p].result = "Cancelled"
        /\ proc[p].at = "InsertIntoPgDistPartition"
        /\ proc[p].writes >= 2

\* C4: in every state a reader of the committed catalogs can observe while
\* promotions run, every distributed relation has exactly one partition
\* row, and the single shard of a one-shard relation has exactly one shard
\* row: the rows between the deletes and the inserts of the rewrite are
\* never visible.
C4_ReaderSeesOnePartitionRow ==
    \A t \in Tables :
        kind[t] # "local" =>
            /\ PartitionRowCount(store, t) = 1
            /\ kind[t] # "multi" =>
                   /\ ShardIntervalCount(store, t) = 1
                   /\ SumCopies(store, ShardRowsById(store, FirstShardOf(t))) = 1

\* A promotion is between its deletes and its inserts: in its own view the
\* relation has neither a partition row nor a shard row.
C4_Witness ==
    \E p \in Procs :
        /\ proc[p].pc = "InsertIntoPgDistPartition"
        /\ PartitionRowCount(View(proc[p]), proc[p].relationId) = 0
        /\ ShardIntervalCount(View(proc[p]), proc[p].relationId) = 0

\* The shard had a FINALIZED placement on every registered worker when the
\* running ReplicateShardToAllWorkers read its placement list.
HealthyEverywhere(l) ==
    \A n \in workers :
        \E r \in l.shardPlacementList :
            r.node = n /\ r.shardstate = FILE_FINALIZED

\* C5: once ReplicateShardToAllWorkers has succeeded for every worker, the
\* shard has a FINALIZED placement on every registered worker (in the view
\* of the call and, after its commit, in the catalog), and a
\* ReplicateShardToAllWorkers that starts from such placements sends the
\* copy commands to no worker and changes no placement row.
C5_SecondReplicationCopiesNothing ==
    /\ [](\A p \in Procs : \A s \in proc[p].replicated :
            (proc[p].pc # "done" \/ proc[p].result = "ok") =>
                \A n \in workers :
                    HealthyOn(IF proc[p].pc = "done" THEN store
                              ELSE View(proc[p]), s, n))
    /\ [][\A p \in Procs :
            (/\ proc[p].pc = "ReplicateToNextWorker"
             /\ HealthyEverywhere(proc[p])) =>
                /\ proc'[p].sent = proc[p].sent
                /\ proc'[p].writes = proc[p].writes
                /\ workerData' = workerData]_vars

\* ReplicateAllReferenceTablesToAllNodes runs the worker loop again over the
\* shard of a reference table, which has a FINALIZED placement on all of
\* the two or more workers.
C5_Witness ==
    \E p \in Procs :
        /\ proc[p].pc = "ReplicateToNextWorker"
        /\ proc[p].op = "replicateAll"
        /\ HealthyEverywhere(proc[p])
        /\ Cardinality(workers) >= 2

CommittedOnWorker(catalog) ==
    \A r \in RowsOf(catalog, "pg_dist_shard_placement") :
        r.shardstate = FILE_FINALIZED => <<r.shardid, r.node>> \in workerData

\* C6: a placement row is FINALIZED, in the committed catalog and in the
\* view of every running call, only for a worker on which the copy of the
\* shard has committed, also after a call was aborted in the middle of its
\* replication.
C6_FinalizedOnlyAfterCopyCommitted ==
    /\ CommittedOnWorker(store)
    /\ \A p \in Procs : CommittedOnWorker(View(proc[p]))

\* A call has failed on the copy to a worker after it had copied to another
\* one, and the worker of the failed copy holds no copy.
C6_Witness ==
    \E p \in Procs :
        /\ proc[p].pc = "done"
        /\ proc[p].result = "WorkerCopyFailed"
        /\ Cardinality(proc[p].sent) >= 2
        /\ \E pair \in proc[p].sent : pair \notin workerData

\* The worker whose copy failed: the last one the call has sent to.
FailedCopy(p) ==
    <<proc[p].shardId,
      SetMax({pair[2] : pair \in {x \in proc[p].sent :
                                     x[1] = proc[p].shardId}})>>

\* C7 as claimed: when the copy on a worker fails, the placements of the
\* workers copied earlier in the same call are FINALIZED in the placement
\* metadata after the call has ended.
C7_EarlierPlacementsStayFinalized ==
    \A p \in Procs :
        (proc[p].pc = "done" /\ proc[p].result = "WorkerCopyFailed") =>
            \A pair \in proc[p].sent \ {FailedCopy(p)} :
                HealthyOn(store, pair[1], pair[2])

\* C7 as amended: when the copy on a worker fails, the copies committed on
\* the workers before it stay committed on those workers, but the call ends
\* with an error and the placement rows it wrote are rolled back: none of
\* the workers the call has sent to has a FINALIZED row in the committed
\* placement metadata.
C7_EarlierCopiesStayRowsRollBack ==
    \A p \in Procs :
        (proc[p].pc = "done" /\ proc[p].result = "WorkerCopyFailed") =>
            /\ \A pair \in proc[p].sent \ {FailedCopy(p)} :
                   pair \in workerData
            /\ \A pair \in proc[p].sent :
                   ~HealthyOn(store, pair[1], pair[2])

\* The copy on the second worker of a call has failed after the copy on
\* its first worker had committed.
C7_Witness ==
    \E p \in Procs :
        /\ proc[p].pc = "done"
        /\ proc[p].result = "WorkerCopyFailed"
        /\ \E pair \in proc[p].sent \ {FailedCopy(p)} :
               pair[1] = proc[p].shardId /\ pair \in workerData

\* C8: when the shard has no FINALIZED placement, ReplicateShardToAllWorkers
\* fails with the no-healthy-source error at its start: the worker loop is
\* entered only with a FINALIZED placement in the list, and a call that
\* ended with that error has sent no copy command for the shard and (as a
\* promotion) has written no row.
C8_NoHealthySourceFailsFirst ==
    \A p \in Procs :
        /\ proc[p].pc = "ReplicateToNextWorker" =>
               \E r \in proc[p].shardPlacementList :
                   r.shardstate = FILE_FINALIZED
        /\ (proc[p].pc = "done" /\ proc[p].result = "NoHealthySource") =>
               /\ proc[p].at = "ReplicateShardToAllWorkers"
               /\ FinalizedPlacements(store, proc[p].shardId) = {}
               /\ \A pair \in proc[p].sent : pair[1] # proc[p].shardId
               /\ proc[p].op = "upgrade" =>
                      proc[p].sent = {} /\ proc[p].writes = 0

\* A call has ended with the no-healthy-source error on a shard that has a
\* placement row, a non-finalized one, on a registered worker.
C8_Witness ==
    \E p \in Procs :
        /\ proc[p].pc = "done"
        /\ proc[p].result = "NoHealthySource"
        /\ \E r \in ShardPlacementList(store, proc[p].shardId) :
               r.node \in workers

\* C9: one call of ReplicateAllReferenceTablesToAllNodes updates the
\* replication factor at most once, after the loop over all reference
\* tables; a call that returns successfully has replicated the shard of
\* every reference table, has made one update when there is a reference
\* table and none when there is none, has written the number of registered
\* workers, and has sent no copy command when every reference table was
\* FINALIZED on every worker.
C9_OneReplicationFactorUpdate ==
    \A p \in Procs :
        /\ proc[p].factorUpdates <= 1
        /\ proc[p].factorUpdates >= 1 =>
               /\ proc[p].pc \in {"CommitTransaction", "done"}
               /\ proc[p].referenceTableList = {}
        /\ (Returned(p, "replicateAll") /\ proc[p].result = "ok") =>
               /\ proc[p].replicated =
                      {FirstShardId(store, t) : t \in ReferenceTableList(store)}
               /\ proc[p].factorUpdates =
                      IF proc[p].replicated = {} THEN 0 ELSE 1
               /\ proc[p].replicated # {} =>
                      \E g \in ColocationRows(store) :
                          /\ g.colocationid = proc[p].currentColocationId
                          /\ g.replicationfactor = Cardinality(workers)
               /\ proc[p].allHealthy => proc[p].sent = {}

\* A call over two reference tables has returned after copying to a worker
\* and one update of the replication factor.
C9_Witness ==
    \E p \in Procs :
        /\ Returned(p, "replicateAll")
        /\ proc[p].result = "ok"
        /\ Cardinality(proc[p].replicated) >= 2
        /\ proc[p].sent # {}
        /\ proc[p].factorUpdates = 1

\* C10 as claimed: all reference tables belong to one and the same
\* colocation group, and after a completed
\* ReplicateAllReferenceTablesToAllNodes call the replication factor of
\* the group of every reference table is the number of registered workers.
C10_OneReferenceGroup ==
    /\ Cardinality({TableColocationId(store, t) :
                       t \in ReferenceTableList(store)}) <= 1
    /\ \A p \in Procs :
           (Returned(p, "replicateAll") /\ proc[p].result = "ok") =>
               \A t \in ReferenceTableList(store) :
                   \A g \in GroupsOf(store, t) :
                       g.replicationfactor = Cardinality(workers)

\* ------------------------------------------- claims of concurrent calls
Holds(p, lock, id) == <<lock, id, p>> \in locks

Running(p) == proc[p].pc \notin {"idle", "done"}

ReplicatePhases ==
    {"ReplicateSingleShardTableToAllWorkers", "ReplicateShardToAllWorkers",
     "ReplicateToNextWorker"}

PromotionPhases == ReplicatePhases \cup ConvertPhases \cup {"CommitTransaction"}

\* C17: a promotion holds the resource lock of its shard only together
\* with the metadata lock taken before it; it holds both once it has sent a
\* copy command or changed a row and in every phase up to its end; no two
\* backends hold the same exclusive lock, and two promotions of one shard
\* are never both in their replicate or rewrite phases.
C17_PromotionHoldsBothLocks ==
    /\ \A p \in Procs :
          (proc[p].op = "upgrade" /\ Running(p)) =>
             LET l == proc[p]
             IN  /\ Holds(p, "resource", l.shardId) =>
                       Holds(p, "metadata", l.shardId)
                 /\ (l.sent # {} \/ l.writes > 0 \/ l.pc \in PromotionPhases)
                    => /\ Holds(p, "metadata", l.shardId)
                       /\ Holds(p, "resource", l.shardId)
    /\ \A k1, k2 \in locks :
          (k1[1] \in {"metadata", "resource"} /\ k1[1] = k2[1]
           /\ k1[2] = k2[2]) => k1[3] = k2[3]
    /\ \A p, q \in Procs :
          (/\ p # q
           /\ proc[p].op = "upgrade" /\ proc[q].op = "upgrade"
           /\ proc[p].shardId = proc[q].shardId)
          => ~(proc[p].pc \in PromotionPhases /\ proc[q].pc \in PromotionPhases)

C17_Witness ==
    \E p, q \in Procs :
       /\ p # q
       /\ proc[p].op = "upgrade" /\ proc[q].op = "upgrade"
       /\ proc[p].shardId = proc[q].shardId
       /\ proc[p].pc \in ConvertPhases
       /\ proc[p].sent # {}
       /\ proc[q].pc = "LockShardDistributionMetadata"

\* C18: a backend that has inserted, updated or deleted a placement row of
\* a shard in its running call holds the exclusive metadata lock and the
\* exclusive resource lock of that shard.
C18_PlacementWritersHoldBothLocks ==
    \A p \in Procs :
       Running(p) =>
          \A r \in BagToSet(proc[p].ins) \cup BagToSet(proc[p].del) :
             r.rel = "pg_dist_shard_placement" =>
                /\ Holds(p, "metadata", r.shardid)
                /\ Holds(p, "resource", r.shardid)

\* C19: from its first statement to its end a ReplicateAll call holds the
\* share lock on the node table, and no node is added or removed meanwhile:
\* the nodes it replicates every shard to are registered workers, and their
\* number is the worker count it writes as replication factor.
C19_NodeListStableDuringReplicateAll ==
    /\ [](\A p \in Procs :
            (proc[p].op = "replicateAll" /\ Running(p)) =>
               /\ Holds(p, "pg_dist_node", 0)
               /\ Cardinality(workers) = proc[p].workerCount
               /\ proc[p].workerNodeList \subseteq workers
               /\ \A c \in proc[p].sent : c[2] \in workers)
    /\ [][(\E p \in Procs : proc[p].op = "replicateAll" /\ Running(p))
            => workers' = workers]_vars

C19_Witness ==
    \E p \in Procs :
       /\ proc[p].op = "replicateAll"
       /\ proc[p].pc = "UpdateColocationGroupReplicationFactor"
       /\ proc[p].sent # {}
       /\ proc[p].currentColocationId # INVALID_COLOCATION_ID
       /\ workers # Nodes
       /\ workers # {}

\* ------------------------------------------------------ claims of the scan
Dispatched == {t \in TaskIds : caller.dispatched[t] > 0}

\* The errors the scan raises by itself, as opposed to the ones its
\* environment causes (invalid plan, out of memory, query cancel).
ScanFailures == {"CouldNotOpenFile", "DirectoryExists", "TaskExecutionFailed"}

RECURSIVE ExpectedRows(_)
ExpectedRows(taskList) ==
    IF taskList = <<>> THEN <<>>
    ELSE TaskOutput(Head(taskList)) \o ExpectedRows(Tail(taskList))

\* C11: a job run with the explain-only flag dispatches no task to a
\* worker, and draining its scan returns no row and does not fail.
C11_ExplainOnlyDrainsEmpty ==
    job.explainOnly =>
        /\ Dispatched = {}
        /\ caller.drained = <<>>
        /\ caller.error \notin ScanFailures

\* C12: after the results were loaded and drained, ReScan followed by a
\* second drain (no EndScan in between) returns the rows of the first drain
\* again, and no task is dispatched a second time.
C12_ReScanReturnsSameRows ==
    (/\ caller.rescanned
     /\ caller.previousComplete
     /\ caller.endScans = 0
     /\ tuplestores # <<>>
     /\ caller.atEnd)
    => /\ caller.drained = caller.previous
       /\ \A t \in TaskIds : caller.dispatched[t] <= 1

\* C13: CitusEndScan leaves the scan without a tuple store; it ends the
\* store the scan holds, once, and a call on a scan that holds no store
\* changes nothing.  No store is ever ended twice.
C13_EndScanIdempotent ==
    /\ [](\A i \in DOMAIN tuplestores : tuplestores[i].ended <= 1)
    /\ [][CitusEndScan =>
            /\ scanState'.tuplestorestate = NULL
            /\ scanState.tuplestorestate = NULL =>
                  UNCHANGED <<scanState, tuplestores, directories,
                              resourceOwner>>
            /\ scanState.tuplestorestate # NULL =>
                  tuplestores'[scanState.tuplestorestate].ended = 1]_vars

C13_Witness ==
    /\ caller.endScans >= 2
    /\ scanState.tuplestorestate = NULL
    /\ \E i \in DOMAIN tuplestores : tuplestores[i].ended = 1

\* C14 as stated: under the real-time executor, as soon as one task of a
\* job of two or more tasks has produced rows and another task has not
\* completed yet, the scan can return a row to the caller.
C14_FirstRowBeforeJobFinishes ==
    (/\ scanState.executorType = MULTI_EXECUTOR_REAL_TIME
     /\ caller.pc = "MultiRealTimeExecute"
     /\ Len(job.taskList) >= 2
     /\ \E t \in caller.completed : job.rowCount[t] > 0
     /\ TasksOf(job) \ caller.completed # {})
    => ENABLED (NextScan /\ Len(caller'.drained) > Len(caller.drained))

\* C14: under every executor the scan returns its first row only after the
\* executor has returned, every task of the job has completed and the file
\* of every task has been loaded into the tuple store.
C14_FirstRowAfterAllTasksLoaded ==
    caller.drained # <<>> =>
        /\ scanState.finishedUnderlyingScan
        /\ \A t \in TasksOf(job) :
              t \in caller.completed /\ caller.loaded[t] = 1

C14_Witness ==
    /\ scanState.executorType = MULTI_EXECUTOR_REAL_TIME
    /\ Len(job.taskList) >= 2
    /\ Len(caller.drained) = 1
    /\ ~caller.atEnd

\* C15 as stated: after a task has failed on all its candidates, and until
\* the job is discarded, the scan holds the rows of the tasks that
\* completed.
C15_SiblingRowsStayRetrievable ==
    (caller.error = "TaskExecutionFailed" /\ caller.pc = "error") =>
        /\ scanState.tuplestorestate # NULL
        /\ \A t \in caller.completed :
              \A i \in 1 .. job.rowCount[t] :
                 \E k \in DOMAIN tuplestores[scanState.tuplestorestate].tuples :
                    tuplestores[scanState.tuplestorestate].tuples[k] = <<t, i>>

\* C15: when a task fails on all its candidates the scan call ends with
\* the task execution error before a tuple store exists: the caller gets no
\* row of the job, and the files of the tasks that completed are removed
\* with the job directory when the resource owner is released.
C15_TaskFailureReturnsNoRows ==
    caller.error = "TaskExecutionFailed" =>
        /\ caller.drained = <<>>
        /\ scanState.tuplestorestate = NULL
        /\ tuplestores = <<>>
        /\ ~scanState.finishedUnderlyingScan
        /\ caller.pc = "closed" => ~JobDirectoryExists

C15_Witness ==
    /\ caller.error = "TaskExecutionFailed"
    /\ caller.pc = "closed"
    /\ Len(job.taskList) >= 2
    /\ \E t \in caller.completed : job.rowCount[t] > 0

\* C16: the job directory exists and is remembered by the resource owner
\* before any task is dispatched, and whenever the directory exists outside
\* the two statements that register it, the resource owner remembers it.
C16_JobDirectoryAlwaysRegistered ==
    /\ Dispatched # {} =>
          caller.pc = "closed"
          \/ (JobDirectoryExists
              /\ job.jobId \in resourceOwner.jobDirectories)
    /\ (/\ JobDirectoryExists
        /\ caller.pc \notin {"ResourceOwnerEnlargeJobDirectories",
                              "ResourceOwnerRememberJobDirectory"})
       => job.jobId \in resourceOwner.jobDirectories

\* C20: once the job has run, the tuple store holds the rows of every task
\* exactly once, task after task in the order of the task list and each
\* task's rows in the order the task produced them; the caller has got the
\* rows before the read pointer, in that order.  No task is dispatched and
\* no task file is loaded more than once, whatever calls follow.
C20_DrainIsTaskOutputsInListOrder ==
    /\ \A t \in TaskIds : caller.dispatched[t] <= 1 /\ caller.loaded[t] <= 1
    /\ (scanState.finishedUnderlyingScan /\ scanState.tuplestorestate # NULL)
       => LET st == tuplestores[scanState.tuplestorestate]
          IN  /\ st.tuples = ExpectedRows(job.taskList)
              /\ caller.drained = SubSeq(st.tuples, 1, st.current)
              /\ caller.atEnd => caller.drained = ExpectedRows(job.taskList)

C20_Witness ==
    /\ ~job.explainOnly
    /\ job.taskList = <<2, 1>>
    /\ \A t \in TasksOf(job) : job.rowCount[t] = MaxRows
    /\ caller.atEnd
    /\ scanState.tuplestorestate # NULL
    /\ caller.drained = ExpectedRows(job.taskList)
    /\ caller.endScans = 0

\* ======================================= claims about the placement rows
\* The placements a catalog shows as healthy.
FinalizedRows(catalog) ==
    {r \in RowsOf(catalog, "pg_dist_shard_placement") :
        r.shardstate = FILE_FINALIZED}

\* Backend p's call ends with an error in this step.
Aborts(p) ==
    /\ proc[p].pc # "done"
    /\ proc'[p].pc = "done"
    /\ proc'[p].result # "ok"

\* C21: a placement that the placement metadata shows as FINALIZED is shown
\* as FINALIZED ever after, whatever calls follow and however they end.  The
\* committed catalog is what every reader outside a call sees; a call sees
\* its own changes as well, until it commits them or is aborted.
C21_FinalizedPlacementsStay ==
    [][/\ FinalizedRows(store) \subseteq FinalizedRows(store')
       /\ \A p \in Procs :
             ~Aborts(p) =>
                 FinalizedRows(View(proc[p])) \subseteq
                     FinalizedRows((store' (-) proc'[p].del) (+) proc'[p].ins)]_vars

\* A ReplicateAll call, made after a promotion has committed and a node was
\* added, has written a placement row and was then aborted; the shard still
\* has its healthy placements.
C21_Witness ==
    LET l == proc[FirstBackend]
    IN  /\ l.pc = "done"
        /\ l.op = "replicateAll"
        /\ l.result \in {"WorkerCopyFailed", "Cancelled"}
        /\ l.writes > 0
        /\ FinalizedPlacements(store, l.shardId) # {}

\* C22: of two promotions of one relation at most one rewrites the
\* metadata: they do not both return successfully, the one that goes on
\* after the other has committed neither reaches the rewrite nor changes a
\* row, and when no call is running the partition row of every reference
\* table refers to a colocation group that exists.
C22_OnePromotionRewrites ==
    /\ \A p, q \in Procs :
          (/\ p # q
           /\ Returned(p, "upgrade") /\ proc[p].result = "ok"
           /\ proc[q].op = "upgrade"
           /\ proc[q].relationId = proc[p].relationId)
          => /\ ~(Returned(q, "upgrade") /\ proc[q].result = "ok")
             /\ Running(q) => (proc[q].pc \notin ConvertPhases
                               /\ proc[q].writes = 0)
    /\ (\A p \in Procs : ~Running(p)) =>
          \A t \in ReferenceTableList(store) : GroupsOf(store, t) # {}

\* The placement rows a catalog holds for one shard on one node, each
\* counted as often as it is there.
PlacementCount(catalog, shardId, node) ==
    SumCopies(catalog, SearchShardPlacementInList(
                           ShardPlacementList(catalog, shardId), node))

ShardIds == {FirstShardOf(t) : t \in Tables} \cup {SecondShardOf(t) : t \in Tables}

OnePlacementPerNode(catalog) ==
    \A s \in ShardIds : \A n \in Nodes : PlacementCount(catalog, s, n) <= 1

\* The placement rows backend p has written in this step.
PlacementsWritten(p) ==
    {r \in BagToSet(proc'[p].ins) :
        /\ r.rel = "pg_dist_shard_placement"
        /\ CopiesIn(r, proc'[p].ins) > CopiesIn(r, proc[p].ins)}

\* C23: the committed catalog and the catalog as every backend sees it hold
\* at most one placement row per shard and node, whatever calls run side by
\* side; a call writes a placement row only as FINALIZED, after which it
\* is the one row of its shard on its node: it was inserted for a node that
\* had no row, or it replaces the row the node had, which was not FINALIZED.
C23_OnePlacementRowPerShardAndNode ==
    /\ [](/\ OnePlacementPerNode(store)
          /\ \A p \in Procs : OnePlacementPerNode(View(proc[p])))
    /\ [][\A p \in Procs : \A r \in PlacementsWritten(p) :
            LET before == SearchShardPlacementInList(
                              ShardPlacementList(View(proc[p]), r.shardid),
                              r.node)
                after == SearchShardPlacementInList(
                             ShardPlacementList(
                                 (store' (-) proc'[p].del) (+) proc'[p].ins,
                                 r.shardid),
                             r.node)
            IN  /\ r.shardstate = FILE_FINALIZED
                /\ after = {r}
                /\ \A b \in before : b.shardstate # FILE_FINALIZED]_vars

\* A promotion that waited for the locks of an earlier one has copied the
\* shard to a node added meanwhile and inserted its placement row, while a
\* ReplicateAll call waits for the metadata lock of the same shard.
C23_Witness ==
    \E p, q \in Procs :
       /\ p # q
       /\ proc[p].op = "upgrade" /\ proc[q].op = "replicateAll"
       /\ proc[q].pc = "LockShardDistributionMetadata"
       /\ proc[q].shardId = proc[p].shardId
       /\ Holds(p, "metadata", proc[p].shardId)
       /\ \E r \in BagToSet(proc[p].ins) :
              /\ r.rel = "pg_dist_shard_placement"
              /\ r.shardid = proc[p].shardId
              /\ PlacementCount(store, r.shardid, r.node) = 0

====
